---- MODULE Spec2Model ----
(***************************************************************************)
(* A model of shillelagh's Google Sheets adapter (adapters/api/gsheets.py) *)
(* and of the Multicorn foreign data wrapper (backends/multicorn/fdw.py).  *)
(*                                                                         *)
(* Text is a sequence of one-character strings, so that quoting, prefix    *)
(* stripping, path surgery and int()/str() are computed character by       *)
(* character as the Python code computes them.                             *)
(***************************************************************************)
EXTENDS Integers, Sequences, FiniteSets, TLC

VARIABLES
    qvalue,      \* quote: the argument
    qresult,     \* quote: the returned text or the raised error
    uri,         \* the source locator, as urllib.parse.urlparse splits it
    url,         \* get_url's result (GSheetsAPI.url once constructed)
    columns,     \* MulticornForeignDataWrapper.columns: name -> Order
    sortkeys,    \* can_sort: the argument
    sorted,      \* can_sort: the returned list
    pc,          \* the adapter: "new", "ready" (constructed) or "failed"
    credentials, \* GSheetsAPI.credentials: whether a service account is used
    column_map,  \* GSheetsAPI._column_map: label -> column id
    requests,    \* the queries sent over HTTP by the operation in progress
    gen,         \* the generator get_data returned: "none", "created",
                 \* "suspended" (at its yield), "finished" or "raised"
    bounds,      \* get_data: the argument, in the dict's iteration order
    response,    \* _run_query: the HTTP response
    results,     \* get_data: the decoded table
    yielded,     \* the rows the generator has yielded so far
    err          \* the exception the operation raised, if any

quoteVars == <<qvalue, qresult>>

sortVars == <<sortkeys, sorted>>

callVars == <<requests, gen, bounds, response, results, yielded, err>>

adapterVars == <<pc, credentials, column_map>>

vars == <<qvalue, qresult, uri, url, columns, sortkeys, sorted, pc, credentials,
          column_map, requests, gen, bounds, response, results, yielded, err>>

----------------------------------------------------------------------------
(* Bounds of the model *)

MaxInt == 12
MaxStrLen == 3
MaxTail == 3
MaxQuery == 2
MaxKeys == 3

----------------------------------------------------------------------------
(* Text helpers: Python's str methods on sequences of characters *)

SeqsUpTo(S, n) == UNION {[1..k -> S] : k \in 0..n}

RECURSIVE Flatten(_)
Flatten(ss) == IF ss = <<>> THEN <<>> ELSE Head(ss) \o Flatten(Tail(ss))

StartsWith(s, p) == Len(s) >= Len(p) /\ SubSeq(s, 1, Len(p)) = p

EndsWith(s, p) == Len(s) >= Len(p) /\ SubSeq(s, Len(s) - Len(p) + 1, Len(s)) = p

\* s[n:]
DropFirst(s, n) == SubSeq(s, n + 1, Len(s))

\* s[:-n]
DropLast(s, n) == SubSeq(s, 1, Len(s) - n)

\* s.rstrip("/")
RECURSIVE RStripSlash(_)
RStripSlash(s) ==
    IF s # <<>> /\ s[Len(s)] = "/" THEN RStripSlash(DropLast(s, 1)) ELSE s

Digits == <<"0", "1", "2", "3", "4", "5", "6", "7", "8", "9">>

DigitSet == {Digits[i] : i \in 1..10}

DigitValue(c) == (CHOOSE i \in 1..10 : Digits[i] = c) - 1

\* str(n) for an int n >= 0
RECURSIVE NatStr(_)
NatStr(n) == IF n < 10 THEN <<Digits[n + 1]>> ELSE NatStr(n \div 10) \o <<Digits[(n % 10) + 1]>>

\* str(i) for an int
IntStr(i) == IF i < 0 THEN <<"-">> \o NatStr(-i) ELSE NatStr(i)

RECURSIVE DigitsValue(_)
DigitsValue(s) ==
    IF s = <<>> THEN 0 ELSE 10 * DigitsValue(DropLast(s, 1)) + DigitValue(s[Len(s)])

\* int(s): an optional sign and at least one decimal digit, else ValueError
ParseInt(s) ==
    LET body == IF s # <<>> /\ s[1] \in {"-", "+"} THEN Tail(s) ELSE s
        neg == s # <<>> /\ s[1] = "-"
    IN  IF body # <<>> /\ \A k \in 1..Len(body) : body[k] \in DigitSet
        THEN [ok |-> TRUE, v |-> IF neg THEN 0 - DigitsValue(body) ELSE DigitsValue(body)]
        ELSE [ok |-> FALSE, v |-> 0]

----------------------------------------------------------------------------
(* Python values that reach quote: one record shape for every type *)

IntV(i) == [t |-> "int", i |-> i, s |-> <<>>, b |-> FALSE]
StrV(s) == [t |-> "str", i |-> 0, s |-> s, b |-> FALSE]
BoolV(b) == [t |-> "bool", i |-> 0, s |-> <<>>, b |-> b]
DateV == [t |-> "date", i |-> 0, s |-> <<>>, b |-> FALSE]
NoneV == [t |-> "none", i |-> 0, s |-> <<>>, b |-> FALSE]

\* str(value) for the values isinstance(value, (int, float)) accepts: bool is
\* a subclass of int, and str(True) is "True"
PyStr(value) ==
    IF value.t = "bool"
    THEN IF value.b THEN <<"T", "r", "u", "e">> ELSE <<"F", "a", "l", "s", "e">>
    ELSE IntStr(value.i)

\* bool(value), as `if filter_.start:` evaluates it
Truthy(value) ==
    CASE value.t = "int" -> value.i # 0
      [] value.t = "str" -> value.s # <<>>
      [] value.t = "bool" -> value.b
      [] value.t = "date" -> TRUE
      [] OTHER -> FALSE

\* A faulty variant of DoubleQuotes: the value is wrapped without escaping
DoubleQuotesNoEscape(s) == s

\* value.replace("'", "''")
RECURSIVE DoubleQuotes(_)
DoubleQuotes(s) ==
    IF s = <<>> THEN <<>>
    ELSE (IF Head(s) = "'" THEN <<"'", "'">> ELSE <<Head(s)>>) \o DoubleQuotes(Tail(s))

NoText == <<>>

\* A faulty variant of quote: every value is rendered, none refused
quoteAnything(value) ==
    IF value.t = "str"
    THEN [err |-> "none", s |-> <<"'">> \o DoubleQuotes(value.s) \o <<"'">>]
    ELSE [err |-> "none", s |-> PyStr(value)]

quote(value) ==
    IF value.t \in {"int", "bool"}
    THEN [err |-> "none", s |-> PyStr(value)]
    ELSE IF value.t = "str"
    THEN [err |-> "none", s |-> <<"'">> \o DoubleQuotes(value.s) \o <<"'">>]
    ELSE [err |-> "Exception", s |-> NoText]

----------------------------------------------------------------------------
(* quote as a one-step machine: SpecQuote *)

QuoteAlphabet == {"O", "'", "B"}

QuoteStrings == SeqsUpTo(QuoteAlphabet, MaxStrLen)

QuoteValues ==
    {IntV(i) : i \in (0 - MaxInt)..MaxInt} \cup {StrV(s) : s \in QuoteStrings}
        \cup {BoolV(TRUE), BoolV(FALSE), DateV, NoneV}

Unset == [err |-> "unset", s |-> NoText]

NoTable == [cols |-> <<>>, rows |-> <<>>]

NoResponse == [status |-> 0, text |-> <<>>, table |-> NoTable, guarded |-> FALSE]

NoError == [type |-> "none", body |-> <<>>]

\* No adapter and no call: the adapter's variables in the machines of the
\* pure functions
NoAdapter ==
    /\ pc = "new"
    /\ credentials = FALSE
    /\ column_map = <<>>
    /\ requests = <<>>
    /\ gen = "none"
    /\ bounds = <<>>
    /\ response = NoResponse
    /\ results = NoTable
    /\ yielded = <<>>
    /\ err = NoError

NoUri == [scheme |-> "", netloc |-> "", path |-> <<>>, query |-> <<>>, fragment |-> <<>>]

NoUrl == [err |-> "unset", scheme |-> "", netloc |-> "", path |-> <<>>, params |-> <<>>]

InitQuote ==
    /\ qvalue \in QuoteValues
    /\ qresult = Unset
    /\ uri = NoUri
    /\ url = NoUrl
    /\ columns = <<>>
    /\ sortkeys = <<>>
    /\ sorted = <<>>
    /\ NoAdapter

Quote ==
    /\ qresult = Unset
    /\ qresult' = quote(qvalue)
    /\ UNCHANGED <<qvalue, uri, url, columns, sortVars, adapterVars, callVars>>

NextQuote == Quote

SpecQuote == InitQuote /\ [][NextQuote]_vars

----------------------------------------------------------------------------
(* Reading a literal back, as the query language reads it: used to state   *)
(* what a quoted value denotes                                             *)

\* The body of a single-quoted literal: a doubled quote stands for one quote,
\* a lone quote is a syntax error
RECURSIVE UnescapeBody(_)
UnescapeBody(s) ==
    IF s = <<>> THEN [ok |-> TRUE, s |-> <<>>]
    ELSE IF Head(s) = "'"
    THEN IF Len(s) >= 2 /\ s[2] = "'"
         THEN LET r == UnescapeBody(DropFirst(s, 2))
              IN  [ok |-> r.ok, s |-> <<"'">> \o r.s]
         ELSE [ok |-> FALSE, s |-> <<>>]
    ELSE LET r == UnescapeBody(Tail(s))
         IN  [ok |-> r.ok, s |-> <<Head(s)>> \o r.s]

\* A literal denotes a string, an integer, or nothing (a syntax error)
ReadLiteral(text) ==
    IF Len(text) >= 2 /\ Head(text) = "'" /\ text[Len(text)] = "'"
    THEN LET r == UnescapeBody(SubSeq(text, 2, Len(text) - 1))
         IN  IF r.ok THEN [ok |-> TRUE, v |-> StrV(r.s)] ELSE [ok |-> FALSE, v |-> NoneV]
    ELSE LET n == ParseInt(text)
         IN  IF n.ok THEN [ok |-> TRUE, v |-> IntV(n.v)] ELSE [ok |-> FALSE, v |-> NoneV]

CountQuotes(s) == Cardinality({k \in 1..Len(s) : s[k] = "'"})

\* C2: quote wraps a string in single quotes and doubles every quote inside
\* it (each quote of the value adds one character, and reading the literal
\* back gives the value); a number is rendered bare, with no quote character,
\* as the decimal text of the number; two different strings never quote to
\* the same literal.
C2_QuoteEscapes ==
    qresult # Unset =>
        /\ qvalue.t = "str" =>
            /\ qresult.err = "none"
            /\ Len(qresult.s) = Len(qvalue.s) + 2 + CountQuotes(qvalue.s)
            /\ Head(qresult.s) = "'"
            /\ qresult.s[Len(qresult.s)] = "'"
            /\ ReadLiteral(qresult.s) = [ok |-> TRUE, v |-> qvalue]
            /\ \A other \in QuoteStrings :
                   other # qvalue.s => quote(StrV(other)).s # qresult.s
        /\ qvalue.t = "int" =>
            /\ qresult.err = "none"
            /\ \A k \in 1..Len(qresult.s) : qresult.s[k] # "'"
            /\ ParseInt(qresult.s) = [ok |-> TRUE, v |-> qvalue.i]

\* C2 witness: O'B has been quoted to 'O''B'
C2_Witness ==
    /\ qvalue = StrV(<<"O", "'", "B">>)
    /\ qresult = [err |-> "none", s |-> <<"'", "O", "'", "'", "B", "'">>]

----------------------------------------------------------------------------
(* get_url: the query-service URL of a source locator *)

DefaultHeaders == 0
DefaultGid == 0

EditSuffix == <<"/", "e", "d", "i", "t">>

GvizEndpoint == <<"g", "v", "i", "z", "/", "t", "q">>

GidPrefix == <<"g", "i", "d", "=">>

SpreadsheetsPrefix ==
    <<"/", "s", "p", "r", "e", "a", "d", "s", "h", "e", "e", "t", "s", "/">>

\* A faulty variant of UrlPath: the endpoint is appended to the path as it came
UrlPathKeepEdit(path) == RStripSlash(path) \o <<"/">> \o GvizEndpoint

\* The path of the query service: strip /edit, then "/".join((path.rstrip("/"), "gviz/tq"))
UrlPath(path) ==
    LET stripped == IF EndsWith(path, EditSuffix)
                    THEN DropLast(path, Len(EditSuffix))
                    ELSE path
    IN  RStripSlash(stripped) \o <<"/">> \o GvizEndpoint

\* key in parse_qs(query)
QsHas(query, key) == \E k \in 1..Len(query) : query[k][1] = key

\* parse_qs(query)[key][-1]
QsLast(query, key) ==
    LET last == CHOOSE k \in 1..Len(query) :
                    /\ query[k][1] = key
                    /\ \A j \in (k + 1)..Len(query) : query[j][1] # key
    IN  query[last][2]

UrlHeaders(u) ==
    IF QsHas(u.query, "headers")
    THEN ParseInt(QsLast(u.query, "headers"))
    ELSE [ok |-> TRUE, v |-> DefaultHeaders]

UrlSheet(u) ==
    IF QsHas(u.query, "sheet")
    THEN [set |-> TRUE, s |-> QsLast(u.query, "sheet")]
    ELSE [set |-> FALSE, s |-> <<>>]

\* A faulty variant of UrlGid: the fragment is read first and the query string
\* overwrites it
UrlGidQueryWins(u) ==
    LET fromFragment == IF StartsWith(u.fragment, GidPrefix)
                        THEN ParseInt(DropFirst(u.fragment, Len(GidPrefix)))
                        ELSE [ok |-> TRUE, v |-> DefaultGid]
    IN  IF ~fromFragment.ok THEN fromFragment
        ELSE IF QsHas(u.query, "gid") THEN ParseInt(QsLast(u.query, "gid"))
        ELSE fromFragment

\* gid: the default, then the query string's, then the fragment's; ok is
\* FALSE when an int() on the way raises ValueError
UrlGid(u) ==
    LET fromQuery == IF QsHas(u.query, "gid")
                     THEN ParseInt(QsLast(u.query, "gid"))
                     ELSE [ok |-> TRUE, v |-> DefaultGid]
    IN  IF ~fromQuery.ok THEN fromQuery
        ELSE IF StartsWith(u.fragment, GidPrefix)
        THEN ParseInt(DropFirst(u.fragment, Len(GidPrefix)))
        ELSE fromQuery

\* args, in insertion order, as urlencode renders the values
UrlArgs(headers, gid, sheet) ==
    (IF headers > 0 THEN << <<"headers", IntStr(headers)>> >> ELSE <<>>)
        \o (IF sheet.set THEN << <<"sheet", sheet.s>> >> ELSE << <<"gid", IntStr(gid)>> >>)

get_url(u) ==
    LET headers == UrlHeaders(u)
        gid == UrlGid(u)
    IN  IF ~headers.ok \/ ~gid.ok
        THEN [err |-> "ValueError", scheme |-> "", netloc |-> "", path |-> <<>>,
              params |-> <<>>]
        ELSE [err |-> "none", scheme |-> u.scheme, netloc |-> u.netloc,
              path |-> UrlPath(u.path),
              params |-> UrlArgs(headers.v, gid.v, UrlSheet(u))]

\* GSheetsAPI.supports
supports(u) ==
    u.netloc = "docs.google.com" /\ StartsWith(u.path, SpreadsheetsPrefix)

----------------------------------------------------------------------------
(* get_url as a one-step machine: SpecUrl *)

PathTokens == {<<"/">>, EditSuffix, <<"e", "d", "i", "t">>}

PathBases == {<<>>, DropLast(SpreadsheetsPrefix, 1)}

Paths == {b \o Flatten(t) : b \in PathBases, t \in SeqsUpTo(PathTokens, MaxTail)}

Netlocs == {"docs.google.com", "example.com"}

QueryPairs == {"headers", "gid", "sheet"} \X {<<"7">>, <<"x">>}

Queries == SeqsUpTo(QueryPairs, MaxQuery)

Fragments == {<<>>, GidPrefix \o <<"3">>, GidPrefix \o <<"x">>, <<"x">>}

Uris ==
    [scheme : {"https"}, netloc : Netlocs, path : Paths, query : Queries,
     fragment : Fragments]

InitUrl ==
    /\ uri \in Uris
    /\ url = NoUrl
    /\ qvalue = NoneV
    /\ qresult = Unset
    /\ columns = <<>>
    /\ sortkeys = <<>>
    /\ sorted = <<>>
    /\ NoAdapter

GetUrl ==
    /\ url = NoUrl
    /\ url' = get_url(uri)
    /\ UNCHANGED <<quoteVars, uri, columns, sortVars, adapterVars, callVars>>

NextUrl == GetUrl

SpecUrl == InitUrl /\ [][NextUrl]_vars

Slashes(k) == [j \in 1..k |-> "/"]

CountOcc(s, p) ==
    Cardinality({k \in 1..(Len(s) - Len(p) + 1) : SubSeq(s, k, k + Len(p) - 1) = p})

\* What is left of the derived path before the appended /gviz/tq
UrlBase == DropLast(url.path, Len(GvizEndpoint) + 1)

\* C9, as amended: for a locator whose path ends with /edit, the derived path
\* is the locator's path with that one trailing /edit (and any slashes before
\* it) removed and /gviz/tq appended exactly once, with no slash left before
\* the appended segment.
C9_EditStrippedOnce ==
    (url.err = "none" /\ EndsWith(uri.path, EditSuffix)) =>
        /\ EndsWith(url.path, <<"/">> \o GvizEndpoint)
        /\ \E k \in 0..Len(uri.path) : uri.path = UrlBase \o Slashes(k) \o EditSuffix
        /\ ~EndsWith(UrlBase, <<"/">>)
        /\ CountOcc(url.path, GvizEndpoint) = CountOcc(uri.path, GvizEndpoint) + 1

\* C9 witness: /spreadsheets/edit has been turned into /spreadsheets/gviz/tq
C9_Witness ==
    /\ uri.path = DropLast(SpreadsheetsPrefix, 1) \o EditSuffix
    /\ url.err = "none"
    /\ url.path = SpreadsheetsPrefix \o GvizEndpoint

\* C9 as stated: for a locator whose path ends with /edit, the suffix is
\* removed and /gviz/tq appended exactly once, with no /edit segment and no
\* doubled slash left before it.
C9_NoEditSegmentLeft ==
    (url.err = "none" /\ EndsWith(uri.path, EditSuffix)) =>
        /\ EndsWith(url.path, <<"/">> \o GvizEndpoint)
        /\ ~EndsWith(UrlBase, EditSuffix)
        /\ ~EndsWith(UrlBase, <<"/">>)
        /\ CountOcc(url.path, GvizEndpoint) = CountOcc(uri.path, GvizEndpoint) + 1

FragmentGid == ParseInt(DropFirst(uri.fragment, Len(GidPrefix)))

\* The locator carries a fragment gid=N and a query-string gid, and get_url
\* returned
BothGids ==
    /\ url.err = "none"
    /\ StartsWith(uri.fragment, GidPrefix)
    /\ FragmentGid.ok
    /\ QsHas(uri.query, "gid")

ParamValues(key) == {url.params[k][2] : k \in {j \in 1..Len(url.params) : url.params[j][1] = key}}

\* C10, as amended: for a locator with a fragment gid=N and a query-string
\* gid=M, the derived URL never carries M: when the locator names no sheet,
\* the URL's gid is N; when it names a sheet, the URL carries that sheet name
\* and no gid at all.
C10_FragmentGidWins ==
    BothGids =>
        /\ ParamValues("gid") \subseteq {IntStr(FragmentGid.v)}
        /\ ~QsHas(uri.query, "sheet") => ParamValues("gid") = {IntStr(FragmentGid.v)}
        /\ QsHas(uri.query, "sheet") =>
               /\ ParamValues("gid") = {}
               /\ ParamValues("sheet") = {QsLast(uri.query, "sheet")}

\* C10 witness: ?gid=7#gid=3 has been resolved to gid=3
C10_Witness ==
    /\ uri.query = << <<"gid", <<"7">>>> >>
    /\ uri.fragment = GidPrefix \o <<"3">>
    /\ url.err = "none"
    /\ url.params = << <<"gid", <<"3">>>> >>

\* C10 as stated: for every locator with a fragment gid=N and a query-string
\* gid=M, the sheet tab identifier in the derived URL is N.
C10_UrlGidIsFragment ==
    BothGids => ParamValues("gid") = {IntStr(FragmentGid.v)}

----------------------------------------------------------------------------
(* MulticornForeignDataWrapper.can_sort *)

Orders == {"NONE", "ASCENDING", "DESCENDING", "ANY"}

\* A faulty variant of is_sortable: the requested direction is not looked at
is_sortableAnyDirection(cols, key) ==
    key.attname \in DOMAIN cols /\ cols[key.attname].order # "NONE"

is_sortable(cols, key) ==
    IF key.attname \notin DOMAIN cols
    THEN FALSE
    ELSE LET order == cols[key.attname].order
         IN  \/ order = "ANY"
             \/ (order = "ASCENDING" /\ ~key.is_reversed)
             \/ (order = "DESCENDING" /\ key.is_reversed)

can_sort(cols, keys) == SelectSeq(keys, LAMBDA key : is_sortable(cols, key))

----------------------------------------------------------------------------
(* can_sort on a wrapper whose adapter declared any sort capabilities:     *)
(* SpecSort                                                                *)

ColumnNames == {"a", "b"}

SortFields == [class : {"Field"}, filters : {{}}, order : Orders]

SortColumns == UNION {[D -> SortFields] : D \in SUBSET ColumnNames}

SortKeys == [attname : ColumnNames, is_reversed : BOOLEAN]

InitSort ==
    /\ columns \in SortColumns
    /\ sortkeys = <<>>
    /\ sorted = <<>>
    /\ qvalue = NoneV
    /\ qresult = Unset
    /\ uri = NoUri
    /\ url = NoUrl
    /\ NoAdapter

CanSort ==
    \E keys \in SeqsUpTo(SortKeys, MaxKeys) :
        /\ sortkeys' = keys
        /\ sorted' = can_sort(columns, keys)
        /\ UNCHANGED <<quoteVars, uri, url, columns, adapterVars, callVars>>

NextSort == CanSort

SpecSort == InitSort /\ [][NextSort]_vars

\* The capability of a key's column honours the key's direction
Honoured(key) ==
    \E c \in DOMAIN columns :
        /\ c = key.attname
        /\ \/ columns[c].order = "ANY"
           \/ (columns[c].order = "ASCENDING" /\ key.is_reversed = FALSE)
           \/ (columns[c].order = "DESCENDING" /\ key.is_reversed = TRUE)

\* The elements of s at the positions I, in their order in s
Pick(s, I) ==
    [j \in 1..Cardinality(I) |->
        s[CHOOSE i \in I : Cardinality({k \in I : k <= i}) = j]]

\* C8: can_sort returns, in their original order, exactly the input keys
\* whose column has capability ANY, or ASCENDING with a non-reversed key, or
\* DESCENDING with a reversed key: nothing for keys on NONE columns, every
\* key on ANY columns whatever its direction, and no key that was not given.
C8_CanSortSubset ==
    /\ sorted = Pick(sortkeys, {i \in 1..Len(sortkeys) : Honoured(sortkeys[i])})
    /\ (\A c \in DOMAIN columns : columns[c].order = "NONE") => sorted = <<>>
    /\ (\A i \in 1..Len(sortkeys) :
            /\ sortkeys[i].attname \in DOMAIN columns
            /\ columns[sortkeys[i].attname].order = "ANY") => sorted = sortkeys
    /\ \A j \in 1..Len(sorted) : \E i \in 1..Len(sortkeys) : sorted[j] = sortkeys[i]

\* C8 witness: with a ASCENDING and b DESCENDING, the keys (a reversed),
\* (b reversed), (a) have been filtered down to (b reversed), (a)
C8_Witness ==
    /\ DOMAIN columns = {"a", "b"}
    /\ columns["a"].order = "ASCENDING"
    /\ columns["b"].order = "DESCENDING"
    /\ sortkeys = <<[attname |-> "a", is_reversed |-> TRUE],
                    [attname |-> "b", is_reversed |-> TRUE],
                    [attname |-> "a", is_reversed |-> FALSE]>>
    /\ sorted = <<[attname |-> "b", is_reversed |-> TRUE],
                  [attname |-> "a", is_reversed |-> FALSE]>>

----------------------------------------------------------------------------
(* The response body.  A body is a sequence of tokens: the five characters *)
(* of the guard prefix, the punctuation of the payload, and one token for  *)
(* each JSON string of the payload.                                        *)

JSON_PAYLOAD_PREFIX == <<")", "]", "}", "'", "\n">>

Punctuation == {"{", "}", "|", "[", "]", ")", "'", "\n"}

\* The body the remote service writes for a table:
\* { id label type ... | [ v ... ] ... }
EncodeTable(t) ==
    <<"{">>
        \o Flatten([k \in 1..Len(t.cols) |-> <<t.cols[k].id, t.cols[k].label, t.cols[k].type>>])
        \o <<"|">>
        \o Flatten([k \in 1..Len(t.rows) |-> <<"[">> \o t.rows[k] \o <<"]">>])
        \o <<"}">>

RECURSIVE LStripNewline(_)
LStripNewline(s) ==
    IF s # <<>> /\ Head(s) = "\n" THEN LStripNewline(Tail(s)) ELSE s

RECURSIVE DecodeCols(_)
DecodeCols(s) ==
    IF s = <<>> THEN [ok |-> TRUE, v |-> <<>>]
    ELSE IF Len(s) < 3 \/ \E k \in 1..3 : s[k] \in Punctuation
    THEN [ok |-> FALSE, v |-> <<>>]
    ELSE LET rest == DecodeCols(DropFirst(s, 3))
         IN  [ok |-> rest.ok,
              v |-> <<[id |-> s[1], label |-> s[2], type |-> s[3]]>> \o rest.v]

RECURSIVE DecodeRows(_)
DecodeRows(s) ==
    IF s = <<>> THEN [ok |-> TRUE, v |-> <<>>]
    ELSE IF Head(s) # "[" \/ ~\E k \in 2..Len(s) : s[k] = "]"
    THEN [ok |-> FALSE, v |-> <<>>]
    ELSE LET close == CHOOSE k \in 2..Len(s) :
                          s[k] = "]" /\ \A j \in 2..(k - 1) : s[j] # "]"
             cells == SubSeq(s, 2, close - 1)
             rest == DecodeRows(DropFirst(s, close))
         IN  IF \E k \in 1..Len(cells) : cells[k] \in Punctuation
             THEN [ok |-> FALSE, v |-> <<>>]
             ELSE [ok |-> rest.ok, v |-> <<cells>> \o rest.v]

\* json.loads(text): leading whitespace is skipped; anything that is not one
\* table raises JSONDecodeError (ok is FALSE)
JsonLoads(text) ==
    LET s == LStripNewline(text)
    IN  IF Len(s) < 3 \/ Head(s) # "{" \/ s[Len(s)] # "}"
            \/ ~\E k \in 2..(Len(s) - 1) : s[k] = "|"
        THEN [ok |-> FALSE, table |-> NoTable]
        ELSE LET bar == CHOOSE k \in 2..(Len(s) - 1) :
                            s[k] = "|" /\ \A j \in 2..(k - 1) : s[j] # "|"
                 cols == DecodeCols(SubSeq(s, 2, bar - 1))
                 rows == DecodeRows(SubSeq(s, bar + 1, Len(s) - 1))
             IN  IF cols.ok /\ rows.ok
                 THEN [ok |-> TRUE, table |-> [cols |-> cols.v, rows |-> rows.v]]
                 ELSE [ok |-> FALSE, table |-> NoTable]

HttpOk == 200

\* A faulty variant of ResponseBody: the body is decoded as it came
ResponseBodyWithGuard(text) == text

\* The text that is decoded: the body without the guard prefix if it starts
\* with it, else the body
ResponseBody(text) ==
    IF StartsWith(text, JSON_PAYLOAD_PREFIX)
    THEN DropFirst(text, Len(JSON_PAYLOAD_PREFIX))
    ELSE text

\* A faulty variant of _run_query: the status of the response is not looked at
_run_queryAnyStatus(resp) ==
    LET decoded == JsonLoads(ResponseBody(resp.text))
    IN  IF decoded.ok
        THEN [err |-> NoError, table |-> decoded.table]
        ELSE [err |-> [type |-> "JSONDecodeError", body |-> <<>>], table |-> NoTable]

\* _run_query, from the response on: what it raises or returns
_run_query(resp) ==
    IF resp.status # HttpOk
    THEN [err |-> [type |-> "ProgrammingError", body |-> resp.text], table |-> NoTable]
    ELSE LET decoded == JsonLoads(ResponseBody(resp.text))
         IN  IF decoded.ok
             THEN [err |-> NoError, table |-> decoded.table]
             ELSE [err |-> [type |-> "JSONDecodeError", body |-> <<>>], table |-> NoTable]

----------------------------------------------------------------------------
(* Schema discovery *)

type_map(type) ==
    CASE type = "string" -> [class |-> "String", filters |-> {"Equal"}]
      [] type = "number" -> [class |-> "Float", filters |-> {"Range"}]
      [] type = "boolean" -> [class |-> "Boolean", filters |-> {"Equal"}]
      [] type = "date" -> [class |-> "Date", filters |-> {"Range"}]
      [] type = "datetime" -> [class |-> "DateTime", filters |-> {"Range"}]
      [] type = "timeofday" -> [class |-> "Time", filters |-> {"Range"}]
      [] OTHER -> [class |-> "String", filters |-> {"Equal"}]

get_field(col) ==
    [class |-> type_map(col.type).class, filters |-> type_map(col.type).filters,
     order |-> "NONE"]

Labels(cols) == {cols[k].label : k \in 1..Len(cols)}

\* The column a dict comprehension keeps for a label: a later column of the
\* same label replaces an earlier one
LastWithLabel(cols, l) ==
    cols[CHOOSE k \in 1..Len(cols) :
             cols[k].label = l /\ \A j \in (k + 1)..Len(cols) : cols[j].label # l]

\* {col["label"]: col["id"] for col in cols}
ColumnMapOf(cols) == [l \in Labels(cols) |-> LastWithLabel(cols, l).id]

\* {col["label"]: get_field(col) for col in cols}
ColumnsOf(cols) == [l \in Labels(cols) |-> get_field(LastWithLabel(cols, l))]

\* SELECT * LIMIT 0
DiscoveryQuery == [where |-> <<>>, limit |-> "0"]

----------------------------------------------------------------------------
(* get_data: the WHERE clause.  A filter is Impossible, Equal(value) or    *)
(* Range(start, include_start, end, include_end); an absent end is None.   *)
(* The clause is a sequence of words, each a text: id, operator, literal,  *)
(* and AND between the conditions.                                         *)

Impossible ==
    [kind |-> "Impossible", value |-> NoneV, start |-> NoneV, include_start |-> FALSE,
     end |-> NoneV, include_end |-> FALSE]

Equal(v) ==
    [kind |-> "Equal", value |-> v, start |-> NoneV, include_start |-> FALSE,
     end |-> NoneV, include_end |-> FALSE]

Range(s, is, e, ie) ==
    [kind |-> "Range", value |-> NoneV, start |-> s, include_start |-> is,
     end |-> e, include_end |-> ie]

AndWord == <<"A", "N", "D">>

\* f"{id_} {op} {literal}": the left side is a column id (one letter) or the
\* digit of the always-false condition
Condition(id, op, literal) == <<<<id>>, op, literal>>

\* The conditions of one filter, or the error quote raised
FilterConditions(id, f) ==
    CASE f.kind = "Impossible" ->
             [err |-> "none", conds |-> <<Condition("1", <<"=">>, <<"0">>)>>]
      [] f.kind = "Equal" ->
             LET q == quote(f.value)
             IN  [err |-> q.err,
                  conds |-> IF q.err = "none" THEN <<Condition(id, <<"=">>, q.s)>> ELSE <<>>]
      [] OTHER ->
             LET lo == IF Truthy(f.start) THEN quote(f.start) ELSE [err |-> "none", s |-> NoText]
                 hi == IF Truthy(f.end) THEN quote(f.end) ELSE [err |-> "none", s |-> NoText]
                 loOp == IF f.include_start THEN <<">", "=">> ELSE <<">">>
                 hiOp == IF f.include_end THEN <<"<", "=">> ELSE <<"<">>
             IN  IF lo.err # "none" THEN [err |-> lo.err, conds |-> <<>>]
                 ELSE IF hi.err # "none" THEN [err |-> hi.err, conds |-> <<>>]
                 ELSE [err |-> "none",
                       conds |-> (IF Truthy(f.start) THEN <<Condition(id, loOp, lo.s)>> ELSE <<>>)
                                  \o (IF Truthy(f.end) THEN <<Condition(id, hiOp, hi.s)>> ELSE <<>>)]

\* The loop over bounds.items(): the conditions in order, or the first error
RECURSIVE Conditions(_, _)
Conditions(cmap, bnds) ==
    IF bnds = <<>> THEN [err |-> "none", conds |-> <<>>]
    ELSE IF bnds[1][1] \notin DOMAIN cmap THEN [err |-> "KeyError", conds |-> <<>>]
    ELSE LET first == FilterConditions(cmap[bnds[1][1]], bnds[1][2])
             rest == Conditions(cmap, Tail(bnds))
         IN  IF first.err # "none" THEN first
             ELSE IF rest.err # "none" THEN rest
             ELSE [err |-> "none", conds |-> first.conds \o rest.conds]

\* ' AND '.join(conditions)
RECURSIVE JoinAnd(_)
JoinAnd(conds) ==
    IF conds = <<>> THEN <<>>
    ELSE IF Len(conds) = 1 THEN conds[1]
    ELSE conds[1] \o <<AndWord>> \o JoinAnd(Tail(conds))

\* SELECT * [WHERE ...]
DataQuery(conds) == [where |-> JoinAnd(conds), limit |-> "none"]

\* dict(zip(column_names, [col["v"] for col in row["c"]])) and data["rowid"] = i
MakeRow(cols, cells, i) ==
    [cells |-> [k \in 1..(IF Len(cols) < Len(cells) THEN Len(cols) ELSE Len(cells)) |->
                   <<cols[k].label, cells[k]>>],
     rowid |-> i]

----------------------------------------------------------------------------
(* The remote service: the tables it holds and the responses it may give *)

MaxRows == 2

Schema ==
    <<[id |-> "A", label |-> "country", type |-> "string"],
      [id |-> "B", label |-> "cnt", type |-> "number"]>>

RowSet == {<<"BR", "1">>, <<"US", "2">>}

Tables == [cols : {Schema}, rows : SeqsUpTo(RowSet, MaxRows)]

Guard(g) == IF g THEN JSON_PAYLOAD_PREFIX ELSE <<>>

TableResponse(status, t, g) ==
    [status |-> status, text |-> Guard(g) \o EncodeTable(t), table |-> t, guarded |-> g]

TextResponse(status, text) ==
    [status |-> status, text |-> text, table |-> NoTable, guarded |-> FALSE]

OneRow == [cols |-> Schema, rows |-> <<<<"BR", "1">>>>]

\* What the service may answer to a data query: a table, guarded or not; a
\* body that is no JSON; an error status with a text or with a table
DataResponses ==
    {TableResponse(HttpOk, t, g) : t \in Tables, g \in BOOLEAN}
        \cup {TextResponse(HttpOk, <<"<html>">>),
              TextResponse(400, <<"Invalid query">>),
              TableResponse(500, OneRow, TRUE)}

DiscoverySchemas ==
    {Schema,
     <<[id |-> "A", label |-> "flag", type |-> "boolean"],
       [id |-> "B", label |-> "shade", type |-> "color"]>>,
     <<>>}

DiscoveryResponses ==
    {TableResponse(HttpOk, [cols |-> c, rows |-> <<>>], g) : c \in DiscoverySchemas, g \in BOOLEAN}
        \cup {TextResponse(403, <<"Forbidden">>)}

----------------------------------------------------------------------------
(* Constructing the adapter: SpecInit *)

InitUris ==
    [scheme : {"https"}, netloc : Netlocs,
     path : {b \o Flatten(t) : b \in PathBases, t \in SeqsUpTo(PathTokens, 1)},
     query : SeqsUpTo(QueryPairs, 1), fragment : Fragments]

InitNew ==
    /\ qvalue = NoneV
    /\ qresult = Unset
    /\ uri = NoUri
    /\ url = NoUrl
    /\ columns = <<>>
    /\ sortkeys = <<>>
    /\ sorted = <<>>
    /\ NoAdapter

\* GSheetsAPI.__init__(uri, service_account_info): get_url, the credentials,
\* then _set_columns with its one query
Initialize ==
    /\ pc = "new"
    /\ \E u \in InitUris, info \in BOOLEAN, resp \in DiscoveryResponses :
        LET target == get_url(u)
            result == _run_query(resp)
        IN  /\ uri' = u
            /\ IF target.err # "none"
               THEN /\ pc' = "failed"
                    /\ err' = [type |-> target.err, body |-> <<>>]
                    /\ UNCHANGED <<url, credentials, requests, response, column_map, columns>>
               ELSE /\ url' = target
                    /\ credentials' = info
                    /\ requests' = Append(requests, DiscoveryQuery)
                    /\ response' = resp
                    /\ err' = result.err
                    /\ IF result.err # NoError
                       THEN /\ pc' = "failed"
                            /\ UNCHANGED <<column_map, columns>>
                       ELSE /\ pc' = "ready"
                            /\ column_map' = ColumnMapOf(result.table.cols)
                            /\ columns' = ColumnsOf(result.table.cols)
    /\ UNCHANGED <<quoteVars, sortVars, gen, bounds, results, yielded>>

NextInit == Initialize

SpecInit == InitNew /\ [][NextInit]_vars

\* C5 as stated: construction fails with ConfigurationError for a locator
\* that supports() rejects (host other than docs.google.com, or a path not
\* under /spreadsheets/): no adapter is constructed and no schema-discovery
\* request is issued.
C5_UnsupportedLocatorRejected ==
    (pc # "new" /\ ~supports(uri)) =>
        /\ pc = "failed"
        /\ err.type = "ConfigurationError"
        /\ requests = <<>>

----------------------------------------------------------------------------
(* Querying a constructed adapter: Spec *)

DefaultUri ==
    [scheme |-> "https", netloc |-> "docs.google.com",
     path |-> SpreadsheetsPrefix \o <<"d", "/", "1">> \o EditSuffix,
     query |-> <<>>, fragment |-> GidPrefix \o <<"0">>]

EqualValues == {IntV(10), StrV(<<"O", "'">>), BoolV(TRUE), DateV, NoneV}

StartValues == {IntV(0), IntV(10), StrV(<<>>), DateV}

EndValues == {IntV(10), StrV(<<"O", "'">>)}

\* The filters get_data is given; the include flag of an absent end is False
Filters ==
    {Impossible} \cup {Equal(v) : v \in EqualValues}
        \cup {Range(s[1], s[2], e[1], e[2]) :
                 s \in {<<NoneV, FALSE>>} \cup (StartValues \X BOOLEAN),
                 e \in {<<NoneV, FALSE>>} \cup (EndValues \X BOOLEAN)}

\* The bounds mappings: at most one filter for a column, in any order
BoundsSet ==
    {b \in SeqsUpTo(Labels(Schema) \X Filters, Cardinality(Labels(Schema))) :
        \A j, k \in 1..Len(b) : j # k => b[j][1] # b[k][1]}

Init ==
    /\ qvalue = NoneV
    /\ qresult = Unset
    /\ sortkeys = <<>>
    /\ sorted = <<>>
    /\ uri = DefaultUri
    /\ url = get_url(DefaultUri)
    /\ pc = "ready"
    /\ credentials = FALSE
    /\ column_map = ColumnMapOf(Schema)
    /\ columns = ColumnsOf(Schema)
    /\ requests = <<DiscoveryQuery>>
    /\ response = TableResponse(HttpOk, [cols |-> Schema, rows |-> <<>>], TRUE)
    /\ gen = "none"
    /\ bounds = <<>>
    /\ results = NoTable
    /\ yielded = <<>>
    /\ err = NoError

\* A faulty variant of GetData: the query is built and sent when get_data is
\* called, not when the sequence is first advanced
GetDataEager ==
    /\ pc = "ready"
    /\ gen = "none"
    /\ \E b \in BoundsSet :
        /\ gen' = "created"
        /\ bounds' = b
        /\ requests' = <<DataQuery(Conditions(column_map, b).conds)>>
        /\ response' = NoResponse
        /\ results' = NoTable
        /\ yielded' = <<>>
        /\ err' = NoError
    /\ UNCHANGED <<quoteVars, sortVars, uri, url, columns, adapterVars>>

\* get_data(bounds): a generator function, so the call runs none of its body
GetData ==
    /\ pc = "ready"
    /\ gen = "none"
    /\ \E b \in BoundsSet :
        /\ gen' = "created"
        /\ bounds' = b
        /\ requests' = <<>>
        /\ response' = NoResponse
        /\ results' = NoTable
        /\ yielded' = <<>>
        /\ err' = NoError
    /\ UNCHANGED <<quoteVars, sortVars, uri, url, columns, adapterVars>>

\* The first next(): the body of get_data up to its first yield
Start ==
    /\ gen = "created"
    /\ LET built == Conditions(column_map, bounds)
       IN  IF built.err # "none"
           THEN /\ gen' = "raised"
                /\ err' = [type |-> built.err, body |-> <<>>]
                /\ UNCHANGED <<requests, response, results, yielded>>
           ELSE \E resp \in DataResponses :
                    LET result == _run_query(resp)
                    IN  /\ requests' = Append(requests, DataQuery(built.conds))
                        /\ response' = resp
                        /\ err' = result.err
                        /\ IF result.err # NoError
                           THEN /\ gen' = "raised"
                                /\ UNCHANGED <<results, yielded>>
                           ELSE /\ results' = result.table
                                /\ IF result.table.rows = <<>>
                                   THEN /\ gen' = "finished"
                                        /\ UNCHANGED yielded
                                   ELSE /\ gen' = "suspended"
                                        /\ yielded' = <<MakeRow(result.table.cols,
                                                                result.table.rows[1], 0)>>
    /\ UNCHANGED <<quoteVars, sortVars, uri, url, columns, adapterVars, bounds>>

\* A later next(): from the yield to the next yield or to the end of the loop
Resume ==
    /\ gen = "suspended"
    /\ LET i == Len(yielded)
       IN  IF i < Len(results.rows)
           THEN /\ yielded' = Append(yielded, MakeRow(results.cols, results.rows[i + 1], i))
                /\ UNCHANGED gen
           ELSE /\ gen' = "finished"
                /\ UNCHANGED yielded
    /\ UNCHANGED <<quoteVars, sortVars, uri, url, columns, adapterVars, bounds,
                   requests, response, results, err>>

\* The caller drops the generator, wherever it stands; the adapter keeps
\* nothing of the call
Discard ==
    /\ gen # "none"
    /\ gen' = "none"
    /\ bounds' = <<>>
    /\ requests' = <<>>
    /\ response' = NoResponse
    /\ results' = NoTable
    /\ yielded' = <<>>
    /\ err' = NoError
    /\ UNCHANGED <<quoteVars, sortVars, uri, url, columns, adapterVars>>

Next == GetData \/ Start \/ Resume \/ Discard

Spec == Init /\ [][Next]_vars

----------------------------------------------------------------------------
(* What a WHERE clause and what a bounds mapping admit, over a universe of *)
(* rows, to compare the two                                                *)

CharRank(c) == IF c = "'" THEN 0 ELSE 1

\* Strings compare character by character, a prefix before its extensions
RECURSIVE StrLess(_, _)
StrLess(a, b) ==
    IF b = <<>> THEN FALSE
    ELSE IF a = <<>> THEN TRUE
    ELSE IF Head(a) # Head(b) THEN CharRank(Head(a)) < CharRank(Head(b))
    ELSE StrLess(Tail(a), Tail(b))

\* Numbers compare with numbers and strings with strings
Less(a, b) ==
    \/ a.t = "int" /\ b.t = "int" /\ a.i < b.i
    \/ a.t = "str" /\ b.t = "str" /\ StrLess(a.s, b.s)

CellValues ==
    {IntV(0 - 1), IntV(0), IntV(1), IntV(10), IntV(11), StrV(<<>>), StrV(<<"O">>),
     StrV(<<"O", "'">>), StrV(<<"O", "'", "O">>)}

\* A row of the sheet: a value for each column id
RowUniverse == [{Schema[k].id : k \in 1..Len(Schema)} -> CellValues]

\* The conditions of a clause: id, operator, literal, with AND between
RECURSIVE ParseWhere(_)
ParseWhere(words) ==
    IF words = <<>> THEN [ok |-> TRUE, conds |-> <<>>]
    ELSE IF Len(words) < 3 \/ \E k \in 1..3 : words[k] = AndWord
    THEN [ok |-> FALSE, conds |-> <<>>]
    ELSE IF Len(words) = 3 THEN [ok |-> TRUE, conds |-> <<words>>]
    ELSE IF words[4] # AndWord \/ Len(words) < 7 THEN [ok |-> FALSE, conds |-> <<>>]
    ELSE LET rest == ParseWhere(DropFirst(words, 4))
         IN  [ok |-> rest.ok, conds |-> <<SubSeq(words, 1, 3)>> \o rest.conds]

\* A condition holds of a row: its left side is a column id or a literal
CondHolds(cond, row) ==
    LET left == IF \E id \in DOMAIN row : cond[1] = <<id>>
                THEN [ok |-> TRUE, v |-> row[cond[1][1]]]
                ELSE ReadLiteral(cond[1])
        right == ReadLiteral(cond[3])
    IN  /\ left.ok
        /\ right.ok
        /\ CASE cond[2] = <<"=">> -> left.v = right.v
             [] cond[2] = <<">">> -> Less(right.v, left.v)
             [] cond[2] = <<">", "=">> -> Less(right.v, left.v) \/ left.v = right.v
             [] cond[2] = <<"<">> -> Less(left.v, right.v)
             [] cond[2] = <<"<", "=">> -> Less(left.v, right.v) \/ left.v = right.v
             [] OTHER -> FALSE

WhereAdmits(words, row) ==
    /\ ParseWhere(words).ok
    /\ \A k \in 1..Len(ParseWhere(words).conds) : CondHolds(ParseWhere(words).conds[k], row)

\* A filter admits a value
FilterAdmits(f, x) ==
    CASE f.kind = "Impossible" -> FALSE
      [] f.kind = "Equal" -> x = f.value
      [] OTHER ->
          /\ f.start # NoneV =>
                 (Less(f.start, x) \/ (f.include_start /\ x = f.start))
          /\ f.end # NoneV =>
                 (Less(x, f.end) \/ (f.include_end /\ x = f.end))

BoundsAdmit(bnds, row) ==
    \A k \in 1..Len(bnds) : FilterAdmits(bnds[k][2], row[column_map[bnds[k][1]]])

\* Every value of the bounds is a number or a string
PlainFilter(f) ==
    /\ f.kind = "Equal" => f.value.t \in {"int", "str"}
    /\ f.kind = "Range" => f.start.t \in {"int", "str", "none"} /\ f.end.t \in {"int", "str", "none"}

\* The generator has been advanced at least once
Started == gen \in {"suspended", "finished", "raised"}

\* C1: for every bounds mapping of numbers and strings, the WHERE clause
\* get_data sends admits exactly the rows the bounds admit: Impossible
\* admits nothing, Equal(v) only v, a Range side is left out only if its end
\* is absent, and the conditions are joined with AND.
C1_WhereRoundTrips ==
    (Started /\ \A k \in 1..Len(bounds) : PlainFilter(bounds[k][2])) =>
        /\ Len(requests) = 1
        /\ \A row \in RowUniverse :
               WhereAdmits(requests[1].where, row) <=> BoundsAdmit(bounds, row)

\* C3: when the service answers a data query with a status other than 200,
\* the call raises ProgrammingError with the response body as its message and
\* no row has been yielded; whenever the call has raised, no row was yielded
\* before the error.
C3_ErrorStatusYieldsNothing ==
    /\ (Started /\ response # NoResponse /\ response.status # HttpOk) =>
           /\ gen = "raised"
           /\ err = [type |-> "ProgrammingError", body |-> response.text]
           /\ yielded = <<>>
    /\ gen = "raised" => yielded = <<>>

\* C3 witness: the service answered 500 with a body that holds a row, and the
\* call raised with that body
C3_Witness ==
    /\ gen = "raised"
    /\ response = TableResponse(500, OneRow, TRUE)
    /\ err.type = "ProgrammingError"
    /\ err.body = response.text

\* The rows the decoded table gives, in order
RowsOf(t) == [k \in 1..Len(t.rows) |-> MakeRow(t.cols, t.rows[k], k - 1)]

\* C4, as amended: a get_data call issues no request until the returned
\* sequence is first advanced, and at most one ever: exactly one once a row,
\* the end of the sequence or an error of the response has been delivered,
\* and none if quoting a bound raised; the response is decoded in full
\* before the first row is yielded, and yielding further rows issues no
\* request.
C4_OneRequestOnFirstAdvance ==
    /\ gen = "created" => requests = <<>>
    /\ gen \in {"suspended", "finished"} =>
           /\ Len(requests) = 1
           /\ results = response.table
           /\ Len(yielded) <= Len(results.rows)
           /\ yielded = SubSeq(RowsOf(results), 1, Len(yielded))
    /\ gen = "raised" =>
           /\ Len(requests) <= 1
           /\ Len(requests) = 1 <=> err.type \in {"ProgrammingError", "JSONDecodeError"}
           /\ requests = <<>> <=> err.type = "Exception"

\* C4 witness: both rows of a two-row answer have been yielded after one
\* request
C4_Witness ==
    /\ gen = "suspended"
    /\ Len(yielded) = 2
    /\ Len(requests) = 1

\* C4 as stated: each get_data call issues exactly one request, never zero,
\* whether or not and however far the caller iterates the sequence.
C4_ExactlyOneRequestPerCall ==
    gen # "none" => Len(requests) = 1

\* A filter holds a value quote refuses: a date or a null to compare with, or
\* a date as the end of a range
HoldsUnquotable(f) ==
    \/ f.kind = "Equal" /\ f.value.t \in {"date", "none"}
    \/ f.kind = "Range" /\ (f.start.t = "date" \/ f.end.t = "date")

\* C6, as amended: a bound value that is neither a number, a boolean nor a
\* string (a date, a null) fails quoting with an exception, so get_data with
\* an Equal bound holding a date or a null, or a Range bound with a date as
\* an end, raises on its first advance without sending a query; a boolean is
\* quoted like a number, as True or False, and a query is sent.
C6_UnquotableValueRaises ==
    Started =>
        /\ (\E k \in 1..Len(bounds) : HoldsUnquotable(bounds[k][2])) =>
               /\ gen = "raised"
               /\ err.type = "Exception"
               /\ requests = <<>>
        /\ (bounds = <<<<"country", Equal(BoolV(TRUE))>>>>) =>
               /\ Len(requests) = 1
               /\ requests[1].where = <<<<"A">>, <<"=">>, <<"T", "r", "u", "e">>>>

\* C6 witness: get_data with Equal(a date) has raised without a request
C6_Witness ==
    /\ gen = "raised"
    /\ bounds = <<<<"cnt", Equal(DateV)>>>>
    /\ err.type = "Exception"
    /\ requests = <<>>

\* A filter holds a value that is neither a number nor a string
HoldsOtherType(f) ==
    \/ f.kind = "Equal" /\ f.value.t \in {"bool", "date", "none"}
    \/ f.kind = "Range" /\ (f.start.t \in {"bool", "date"} \/ f.end.t \in {"bool", "date"})

\* C6 as stated: a bound value that is neither a number nor a string (a
\* boolean, a date, a null) fails quoting, so get_data raises instead of
\* building a query from it.
C6_OtherTypeRaises ==
    (Started /\ \E k \in 1..Len(bounds) : HoldsOtherType(bounds[k][2])) =>
        /\ gen = "raised"
        /\ err.type = "Exception"
        /\ requests = <<>>

\* C7: a body that starts with the guard prefix and a body without it decode
\* to the same result for the same table: the decoded table is the table the
\* service encoded, and the rows yielded are that table's rows, whether or
\* not the body was guarded.
C7_GuardPrefixTransparent ==
    (Started /\ response.status = HttpOk /\ response.table # NoTable) =>
        /\ gen \in {"suspended", "finished"}
        /\ results = response.table
        /\ yielded = SubSeq(RowsOf(response.table), 1, Len(yielded))
        /\ gen = "finished" => yielded = RowsOf(response.table)
        /\ response.guarded <=> StartsWith(response.text, JSON_PAYLOAD_PREFIX)

\* C7 witness: a guarded body with two rows has been decoded and both rows
\* yielded
C7_Witness ==
    /\ response.status = HttpOk
    /\ response.guarded
    /\ gen = "finished"
    /\ Len(yielded) = 2
    /\ yielded[2] = [cells |-> <<<<"country", "US">>, <<"cnt", "2">>>>, rowid |-> 1]

====
